---- MODULE Spec2Model ----
(***************************************************************************)
(* Kubernetes token cache and fetch client of pkg/okteto (kubetoken).      *)
(*                                                                         *)
(* FileByteStore keeps one file; KubeTokenCache keeps in that file a JSON  *)
(* array of storeRegister{context, namespace, token}; KubeTokenClient      *)
(* fetches a TokenRequest over HTTP and stores it in the cache.            *)
(*                                                                         *)
(* Bytes are modelled as parsed JSON documents, tagged by their shape      *)
(* (fmt).  In-memory values (TokenRequest, storeRegister) are distinct     *)
(* records: json.Marshal / json.Unmarshal convert between the two.         *)
(* A time.Time is a number of clock ticks; the JSON text of a metav1.Time  *)
(* is RFC 3339 text, written by Marshal with whole seconds only and read   *)
(* by Unmarshal with an optional fraction.                                 *)
(***************************************************************************)
EXTENDS Integers, Sequences, FiniteSets, TLC

----------------------------------------------------------------------------
(* Bounds *)

\* time.Time values range over 0..MaxTime clock ticks
MaxTime == 3
\* clock ticks per second of RFC 3339 text (10^9 in Go, scaled down)
TicksPerSecond == 2
\* registers in a file written by another program
MaxRegisters == 3

\* the (contextName, namespace) pairs the callers use: two namespaces of one
\* context and one namespace in two contexts
Keys == {<<"ctx1", "ns1">>, <<"ctx1", "ns2">>, <<"ctx2", "ns1">>}
\* values of TokenRequest.Status.Token
Payloads == {"tok"}
Times == 0..MaxTime

----------------------------------------------------------------------------
(* Values *)

\* authenticationv1.TokenRequest as the cache reads it: the opaque payload
\* and Status.ExpirationTimestamp
TokenRequest == [token : Payloads, expirationTimestamp : Times]

NoToken == [token |-> "", expirationTimestamp |-> 0]

\* the Go error values, by kind and by the text that identifies them
NoErr == [kind |-> "nil", detail |-> ""]
StorageError(what) == [kind |-> "StorageError", detail |-> what]
CacheDecodeError == [kind |-> "DecodeError", detail |-> "error decoding"]

\* the zero-length string / byte slice
EmptyBytes == [fmt |-> "empty"]
\* bytes that json.Unmarshal rejects
Garbage == [fmt |-> "garbage"]
\* the bytes "[]" that FileByteStore.Get writes into a new file
EmptyArray == [fmt |-> "array", value |-> <<>>]

----------------------------------------------------------------------------
(* encoding/json on the types of the cache *)

\* metav1.Time.MarshalJSON: t.UTC().Format(time.RFC3339), no fraction
MarshalTime(t) == [sec |-> t \div TicksPerSecond, frac |-> 0]

\* metav1.Time.UnmarshalJSON: time.Parse(time.RFC3339, str), which accepts
\* a fractional second in its input
UnmarshalTime(x) == x.sec * TicksPerSecond + x.frac

\* the JSON object of a TokenRequest
MarshalTokenValue(tok) ==
    [token |-> tok.token,
     expirationTimestamp |-> MarshalTime(tok.expirationTimestamp)]

UnmarshalTokenValue(v) ==
    [token |-> v.token,
     expirationTimestamp |-> UnmarshalTime(v.expirationTimestamp)]

\* json.MarshalIndent(register.Token, "", "\t")
MarshalIndentToken(tok) ==
    [fmt |-> "object", indent |-> TRUE, value |-> MarshalTokenValue(tok)]

\* json.MarshalIndent(store, "", "\t") of a []storeRegister
MarshalIndentStore(store) ==
    [fmt |-> "array",
     value |-> [i \in 1..Len(store) |->
                   [context |-> store[i].ContextName,
                    namespace |-> store[i].Namespace,
                    token |-> MarshalTokenValue(store[i].Token)]]]

\* json.Unmarshal(contents, &store): fails unless the bytes are an array
UnmarshalStoreOk(contents) == contents.fmt = "array"

UnmarshalStore(contents) ==
    [i \in 1..Len(contents.value) |->
        [ContextName |-> contents.value[i].context,
         Namespace |-> contents.value[i].namespace,
         Token |-> UnmarshalTokenValue(contents.value[i].token)]]

\* json.Unmarshal(body, &token): fails unless the bytes are an object
UnmarshalTokenOk(body) == body.fmt = "object"

UnmarshalToken(body) == UnmarshalTokenValue(body.value)

----------------------------------------------------------------------------
(* FileByteStore: the file is [exists, contents] *)

NoFile == [exists |-> FALSE, contents |-> EmptyBytes]

\* the system call of an operation that fails, if any
Faults == {"none", "stat", "create", "read", "write"}

\* FileByteStore.Get creating the new file with no bytes in it
FileByteStoreGetBlank(f, fault) ==
    IF fault = "stat"
    THEN [file |-> f, data |-> EmptyBytes,
          err |-> StorageError("error checking if file exists")]
    ELSE IF ~f.exists /\ fault = "create"
    THEN [file |-> f, data |-> EmptyBytes,
          err |-> StorageError("error creating file")]
    ELSE LET g == IF f.exists THEN f
                  ELSE [exists |-> TRUE, contents |-> EmptyBytes]
         IN IF fault = "read"
            THEN [file |-> g, data |-> EmptyBytes,
                  err |-> StorageError("error reading file")]
            ELSE [file |-> g, data |-> g.contents, err |-> NoErr]

\* FileByteStore.Get writing the empty array whether the file exists or not
FileByteStoreGetReinit(f, fault) ==
    IF fault = "stat"
    THEN [file |-> f, data |-> EmptyBytes,
          err |-> StorageError("error checking if file exists")]
    ELSE IF ~f.exists /\ fault = "create"
    THEN [file |-> f, data |-> EmptyBytes,
          err |-> StorageError("error creating file")]
    ELSE LET g == [exists |-> TRUE, contents |-> EmptyArray]
         IN IF fault = "read"
            THEN [file |-> g, data |-> EmptyBytes,
                  err |-> StorageError("error reading file")]
            ELSE [file |-> g, data |-> g.contents, err |-> NoErr]

\* FileByteStore.Get: the file afterwards, the bytes returned and the error
FileByteStoreGet(f, fault) ==
    IF fault = "stat"
    THEN [file |-> f, data |-> EmptyBytes,
          err |-> StorageError("error checking if file exists")]
    ELSE IF ~f.exists /\ fault = "create"
    THEN [file |-> f, data |-> EmptyBytes,
          err |-> StorageError("error creating file")]
    ELSE LET g == IF f.exists THEN f
                  ELSE [exists |-> TRUE, contents |-> EmptyArray]
         IN IF fault = "read"
            THEN [file |-> g, data |-> EmptyBytes,
                  err |-> StorageError("error reading file")]
            ELSE [file |-> g, data |-> g.contents, err |-> NoErr]

\* what os.WriteFile leaves when it fails after it has opened the file with
\* O_TRUNC: no byte ("truncated") or a proper prefix of the value
\* ("partial"), which is never a JSON document
InterruptedFaults == {"truncated", "partial"}

\* FileByteStore.Set opening the file for append: bytes written after the
\* bytes of a file that is not empty make no JSON document
FileByteStoreSetAppend(f, value, fault) ==
    IF fault = "write"
    THEN [file |-> f, err |-> StorageError("error writing file")]
    ELSE IF f.exists /\ f.contents # EmptyBytes /\ value # EmptyBytes
    THEN [file |-> [exists |-> TRUE, contents |-> Garbage], err |-> NoErr]
    ELSE IF f.exists /\ value = EmptyBytes
    THEN [file |-> f, err |-> NoErr]
    ELSE [file |-> [exists |-> TRUE, contents |-> value], err |-> NoErr]

\* FileByteStore.Set: os.WriteFile replaces the whole contents; it fails
\* before it opens the file ("write") or after it has truncated it
FileByteStoreSet(f, value, fault) ==
    IF fault = "write"
    THEN [file |-> f, err |-> StorageError("error writing file")]
    ELSE IF fault = "truncated"
    THEN [file |-> [exists |-> TRUE, contents |-> EmptyBytes],
          err |-> StorageError("error writing file")]
    ELSE IF fault = "partial"
    THEN [file |-> [exists |-> TRUE, contents |-> Garbage],
          err |-> StorageError("error writing file")]
    ELSE [file |-> [exists |-> TRUE, contents |-> value], err |-> NoErr]

----------------------------------------------------------------------------
(* KubeTokenCache *)

\* KubeTokenCache.read replacing contents it cannot decode by the empty array
readResetting(f, fault) ==
    LET g == FileByteStoreGet(f, fault)
    IN IF g.err # NoErr
       THEN [file |-> g.file, store |-> <<>>, err |-> g.err, gets |-> 1]
       ELSE IF ~UnmarshalStoreOk(g.data)
       THEN [file |-> [exists |-> TRUE, contents |-> EmptyArray],
             store |-> <<>>, err |-> CacheDecodeError, gets |-> 1]
       ELSE [file |-> g.file, store |-> UnmarshalStore(g.data), err |-> NoErr,
             gets |-> 1]

\* KubeTokenCache.read answering from a store kept in memory since the
\* cache was built, when the file held no register, instead of decoding
\* the bytes it has loaded
readRemembered(f, fault) ==
    LET g == FileByteStoreGet(f, fault)
    IN IF g.err # NoErr
       THEN [file |-> g.file, store |-> <<>>, err |-> g.err, gets |-> 1]
       ELSE IF ~UnmarshalStoreOk(g.data)
       THEN [file |-> g.file, store |-> <<>>, err |-> CacheDecodeError, gets |-> 1]
       ELSE [file |-> g.file, store |-> <<>>, err |-> NoErr, gets |-> 1]

\* KubeTokenCache.read; gets counts its calls of StringStore.Get
read(f, fault) ==
    LET g == FileByteStoreGet(f, fault)
    IN IF g.err # NoErr
       THEN [file |-> g.file, store |-> <<>>, err |-> g.err, gets |-> 1]
       ELSE IF ~UnmarshalStoreOk(g.data)
       THEN [file |-> g.file, store |-> <<>>, err |-> CacheDecodeError, gets |-> 1]
       ELSE [file |-> g.file, store |-> UnmarshalStore(g.data), err |-> NoErr,
             gets |-> 1]

\* a key comparison that forgets the context
MatchesNamespaceOnly(r, contextName, namespace) ==
    r.Namespace = namespace

\* the key comparison of Get and setWithErr
Matches(r, contextName, namespace) ==
    r.ContextName = contextName /\ r.Namespace = namespace

\* indexes of the registers of store with the key
MatchingIndexes(store, contextName, namespace) ==
    {i \in 1..Len(store) : Matches(store[i], contextName, namespace)}

\* the last index of the scan instead of the first
MinLast(S) == CHOOSE x \in S : \A y \in S : x >= y

Min(S) == CHOOSE x \in S : \A y \in S : x <= y

\* a comparison that lets a token live through its last instant
NotBefore(t, u) == t >= u

\* Time.After
After(t, u) == t > u

\* the decoded store without its registers of the key
WithoutKey(store, contextName, namespace) ==
    SelectSeq(store, LAMBDA r : ~Matches(r, contextName, namespace))

\* KubeTokenCache.Get invalidating the register it finds expired
GetInvalidating(f, contextName, namespace, now, fault) ==
    LET r == read(f, fault)
        idx == MatchingIndexes(r.store, contextName, namespace)
    IN IF r.err # NoErr
       THEN [file |-> r.file, result |-> EmptyBytes, err |-> r.err,
             gets |-> r.gets, sets |-> 0]
       ELSE IF idx = {}
       THEN [file |-> r.file, result |-> EmptyBytes, err |-> NoErr,
             gets |-> r.gets, sets |-> 0]
       ELSE LET register == r.store[Min(idx)]
            IN IF After(register.Token.expirationTimestamp, now)
               THEN [file |-> r.file,
                     result |-> MarshalIndentToken(register.Token),
                     err |-> NoErr, gets |-> r.gets, sets |-> 0]
               ELSE [file |-> [exists |-> TRUE,
                               contents |-> MarshalIndentStore(
                                   WithoutKey(r.store, contextName, namespace))],
                     result |-> EmptyBytes, err |-> NoErr,
                     gets |-> r.gets, sets |-> 1]

\* KubeTokenCache.Get reporting an expired register as an error
GetExpiredError(f, contextName, namespace, now, fault) ==
    LET r == read(f, fault)
        idx == MatchingIndexes(r.store, contextName, namespace)
    IN IF r.err # NoErr
       THEN [file |-> r.file, result |-> EmptyBytes, err |-> r.err,
             gets |-> r.gets, sets |-> 0]
       ELSE IF idx = {}
       THEN [file |-> r.file, result |-> EmptyBytes, err |-> NoErr,
             gets |-> r.gets, sets |-> 0]
       ELSE LET register == r.store[Min(idx)]
            IN IF After(register.Token.expirationTimestamp, now)
               THEN [file |-> r.file,
                     result |-> MarshalIndentToken(register.Token),
                     err |-> NoErr, gets |-> r.gets, sets |-> 0]
               ELSE [file |-> r.file, result |-> EmptyBytes,
                     err |-> [kind |-> "ExpiredError", detail |-> "token expired"],
                     gets |-> r.gets, sets |-> 0]

\* KubeTokenCache.Get: the file afterwards, the string returned, the error,
\* and its calls of StringStore.Get (gets) and StringStore.Set (sets)
Get(f, contextName, namespace, now, fault) ==
    LET r == read(f, fault)
        idx == MatchingIndexes(r.store, contextName, namespace)
    IN IF r.err # NoErr
       THEN [file |-> r.file, result |-> EmptyBytes, err |-> r.err,
             gets |-> r.gets, sets |-> 0]
       ELSE IF idx = {}
       THEN [file |-> r.file, result |-> EmptyBytes, err |-> NoErr,
             gets |-> r.gets, sets |-> 0]
       ELSE LET register == r.store[Min(idx)]
            IN IF After(register.Token.expirationTimestamp, now)
               THEN [file |-> r.file,
                     result |-> MarshalIndentToken(register.Token),
                     err |-> NoErr, gets |-> r.gets, sets |-> 0]
               ELSE [file |-> r.file, result |-> EmptyBytes, err |-> NoErr,
                     gets |-> r.gets, sets |-> 0]

\* setWithErr without its loop: every write appends
UpsertAlwaysAppend(store, contextName, namespace, token) ==
    Append(store, [ContextName |-> contextName,
                   Namespace |-> namespace,
                   Token |-> token])

\* setWithErr whose loop stops at the first match and then falls through to
\* the append
UpsertThenAppend(store, contextName, namespace, token) ==
    Append([i \in 1..Len(store) |->
               IF Matches(store[i], contextName, namespace)
               THEN [store[i] EXCEPT !.Token = token]
               ELSE store[i]],
           [ContextName |-> contextName,
            Namespace |-> namespace,
            Token |-> token])

\* setWithErr putting its register in front of the store it has read,
\* without looking for the key
UpsertPrepend(store, contextName, namespace, token) ==
    <<[ContextName |-> contextName,
       Namespace |-> namespace,
       Token |-> token]>> \o store

\* setWithErr moving the register it replaces to the end of the store
UpsertMoveToEnd(store, contextName, namespace, token) ==
    Append(WithoutKey(store, contextName, namespace),
           [ContextName |-> contextName,
            Namespace |-> namespace,
            Token |-> token])

\* the loop and the append of setWithErr, on the decoded store
Upsert(store, contextName, namespace, token) ==
    IF MatchingIndexes(store, contextName, namespace) # {}
    THEN [i \in 1..Len(store) |->
             IF Matches(store[i], contextName, namespace)
             THEN [store[i] EXCEPT !.Token = token]
             ELSE store[i]]
    ELSE Append(store, [ContextName |-> contextName,
                        Namespace |-> namespace,
                        Token |-> token])

\* setWithErr reading the file back after it has persisted it
setWithErrVerifying(f, contextName, namespace, token, fault) ==
    LET r == read(f, fault)
    IN IF r.err # NoErr
       THEN [file |-> r.file, err |-> r.err, gets |-> r.gets, sets |-> 0]
       ELSE LET w == FileByteStoreSet(r.file,
                         MarshalIndentStore(
                             Upsert(r.store, contextName, namespace, token)),
                         fault)
            IN [file |-> w.file, err |-> w.err,
                gets |-> r.gets + read(w.file, fault).gets, sets |-> 1]

\* KubeTokenCache.setWithErr: the file afterwards, the error, and its calls
\* of StringStore.Get (gets) and StringStore.Set (sets)
setWithErr(f, contextName, namespace, token, fault) ==
    LET r == read(f, fault)
    IN IF r.err # NoErr
       THEN [file |-> r.file, err |-> r.err, gets |-> r.gets, sets |-> 0]
       ELSE LET w == FileByteStoreSet(r.file,
                         MarshalIndentStore(
                             Upsert(r.store, contextName, namespace, token)),
                         fault)
            IN [file |-> w.file, err |-> w.err, gets |-> r.gets, sets |-> 1]

\* KubeTokenCache.Set under the key (namespace, contextName)
SetSwapped(f, contextName, namespace, token, fault) ==
    LET w == setWithErr(f, namespace, contextName, token, fault)
    IN [file |-> w.file, swallowed |-> w.err, gets |-> w.gets, sets |-> w.sets]

\* KubeTokenCache.Set: setWithErr with its error dropped; swallowed is the
\* error the caller never sees
Set(f, contextName, namespace, token, fault) ==
    LET w == setWithErr(f, contextName, namespace, token, fault)
    IN [file |-> w.file, swallowed |-> w.err, gets |-> w.gets, sets |-> w.sets]

----------------------------------------------------------------------------
(* KubeTokenClient *)

\* http.StatusOK, http.StatusUnauthorized
StatusOK == 200
StatusUnauthorized == 401

\* the status codes the endpoint answers with: 200, 401 and one other
StatusCodes == {StatusOK, StatusUnauthorized, 500}

\* resp.Status of a status code
StatusText(code) ==
    IF code = StatusOK THEN "200 OK"
    ELSE IF code = StatusUnauthorized THEN "401 Unauthorized"
    ELSE "500 Internal Server Error"

\* response bodies: a TokenRequest object, compact or indented, whose
\* timestamp text may carry a fraction, or bytes that are no JSON object
TokenBodies ==
    {[fmt |-> "object", indent |-> b,
      value |-> [token |-> p,
                 expirationTimestamp |->
                     [sec |-> t \div TicksPerSecond, frac |-> t % TicksPerSecond]]] :
        b \in BOOLEAN, p \in Payloads, t \in Times}

Bodies == TokenBodies \cup {Garbage}

\* what httpClient.Get and io.ReadAll can yield: transport is the error of
\* the request, readable whether io.ReadAll succeeds
Responses ==
    {[transport |-> FALSE, status |-> 0, readable |-> FALSE, body |-> EmptyBytes]}
    \cup {[transport |-> TRUE, status |-> c, readable |-> FALSE, body |-> EmptyBytes] :
              c \in StatusCodes}
    \cup {[transport |-> TRUE, status |-> StatusOK, readable |-> TRUE, body |-> b] :
              b \in Bodies}

NoResp == [transport |-> FALSE, status |-> 0, readable |-> FALSE, body |-> EmptyBytes]

\* oktetoErrors.ErrNotLogged formatted without its argument
ErrNotLoggedUnnamed(contextName) == [kind |-> "AuthenticationError", detail |-> ""]

\* oktetoErrors.ErrNotLogged formatted with the context name
ErrNotLogged(contextName) == [kind |-> "AuthenticationError", detail |-> contextName]

\* a return of GetKubeToken before the cache is reached: one request made,
\* no token, the file as it was
Failed(f, err) ==
    [file |-> f, result |-> EmptyBytes, setCalls |-> 0, swallowed |-> NoErr,
     gets |-> 0, sets |-> 0, requests |-> 1, err |-> err]

\* GetKubeToken reporting the failure of the cache write to its caller
GetKubeTokenStrict(f, c, resp, fault) ==
    IF ~resp.transport
    THEN Failed(f, [kind |-> "NetworkError", detail |-> "failed GET request"])
    ELSE IF resp.status = StatusUnauthorized
    THEN Failed(f, ErrNotLogged(c.contextName))
    ELSE IF resp.status # StatusOK
    THEN Failed(f, [kind |-> "UnexpectedStatusError",
                    detail |-> StatusText(resp.status)])
    ELSE IF ~resp.readable
    THEN Failed(f, [kind |-> "ReadError",
                    detail |-> "failed to read kubetoken response"])
    ELSE IF ~UnmarshalTokenOk(resp.body)
    THEN Failed(f, [kind |-> "DecodeError",
                    detail |-> "failed to unmarshal kubetoken response"])
    ELSE LET w == Set(f, c.contextName, c.namespace, UnmarshalToken(resp.body), fault)
         IN [file |-> w.file,
             result |-> IF w.swallowed = NoErr THEN resp.body ELSE EmptyBytes,
             setCalls |-> 1, swallowed |-> w.swallowed, gets |-> w.gets,
             sets |-> w.sets, requests |-> 1, err |-> w.swallowed]

\* GetKubeToken testing for a status other than 200 before it tests for 401
GetKubeTokenStatusFirst(f, c, resp, fault) ==
    IF ~resp.transport
    THEN Failed(f, [kind |-> "NetworkError", detail |-> "failed GET request"])
    ELSE IF resp.status # StatusOK
    THEN Failed(f, [kind |-> "UnexpectedStatusError",
                    detail |-> StatusText(resp.status)])
    ELSE IF ~resp.readable
    THEN Failed(f, [kind |-> "ReadError",
                    detail |-> "failed to read kubetoken response"])
    ELSE IF ~UnmarshalTokenOk(resp.body)
    THEN Failed(f, [kind |-> "DecodeError",
                    detail |-> "failed to unmarshal kubetoken response"])
    ELSE LET w == Set(f, c.contextName, c.namespace, UnmarshalToken(resp.body), fault)
         IN [file |-> w.file, result |-> resp.body, setCalls |-> 1,
             swallowed |-> w.swallowed, gets |-> w.gets, sets |-> w.sets,
             requests |-> 1, err |-> NoErr]

\* KubeTokenClient.GetKubeToken on client c; requests counts the calls of
\* httpClient.Get, setCalls the calls of c.cache.Set
GetKubeToken(f, c, resp, fault) ==
    IF ~resp.transport
    THEN Failed(f, [kind |-> "NetworkError", detail |-> "failed GET request"])
    ELSE IF resp.status = StatusUnauthorized
    THEN Failed(f, ErrNotLogged(c.contextName))
    ELSE IF resp.status # StatusOK
    THEN Failed(f, [kind |-> "UnexpectedStatusError",
                    detail |-> StatusText(resp.status)])
    ELSE IF ~resp.readable
    THEN Failed(f, [kind |-> "ReadError",
                    detail |-> "failed to read kubetoken response"])
    ELSE IF ~UnmarshalTokenOk(resp.body)
    THEN Failed(f, [kind |-> "DecodeError",
                    detail |-> "failed to unmarshal kubetoken response"])
    ELSE LET w == Set(f, c.contextName, c.namespace, UnmarshalToken(resp.body), fault)
         IN [file |-> w.file, result |-> resp.body, setCalls |-> 1,
             swallowed |-> w.swallowed, gets |-> w.gets, sets |-> w.sets,
             requests |-> 1, err |-> NoErr]

----------------------------------------------------------------------------
(* State *)

\* file: the file of the FileByteStore; client: the KubeTokenClient built by
\* NewKubeTokenClient; last: the operation that ran last, with its inputs,
\* the file it found (pre) and what it returned
VARIABLES file, client, last, procs, lastWriter

vars == <<file, client, last, procs, lastWriter>>

NoOp ==
    [op |-> "none", contextName |-> "", namespace |-> "", token |-> NoToken,
     now |-> 0, fault |-> "none", resp |-> NoResp, result |-> EmptyBytes,
     err |-> NoErr, swallowed |-> NoErr, setCalls |-> 0, pre |-> NoFile,
     gets |-> 0, sets |-> 0, requests |-> 0, value |-> EmptyBytes]

\* two processes that run Get or setWithErr on the same file
Procs == {"w1", "w2"}

\* a process that has not called Get or setWithErr yet
IdleProc ==
    [pc |-> "idle", op |-> "none", contextName |-> "", namespace |-> "",
     token |-> NoToken, now |-> 0, buf |-> EmptyBytes, result |-> EmptyBytes,
     err |-> NoErr]

\* contents of the file when the program starts: no file, the empty array,
\* or bytes that are no JSON
InitFiles ==
    {NoFile,
     [exists |-> TRUE, contents |-> EmptyArray],
     [exists |-> TRUE, contents |-> Garbage]}

\* NewKubeTokenClient("ctx1", token, "ns1", cache)
NewKubeTokenClient == [contextName |-> "ctx1", namespace |-> "ns1"]

Init ==
    /\ file \in InitFiles
    /\ client = NewKubeTokenClient
    /\ procs = [p \in Procs |-> IdleProc]
    /\ lastWriter = "none"
    /\ last = NoOp

\* the system calls that can fail in an operation on file f
GetFaults(f) == {"none", "stat", "read"} \cup (IF f.exists THEN {} ELSE {"create"})
SetFaults(f) == GetFaults(f) \cup {"write"}

\* c.Get(contextName, namespace) at clock reading now
DoGet ==
    \E key \in Keys, now \in Times, fault \in GetFaults(file) :
      \E g \in {Get(file, key[1], key[2], now, fault)} :
        LET contextName == key[1]
            namespace == key[2]
        IN /\ file' = g.file
           /\ last' = [NoOp EXCEPT !.op = "Get", !.contextName = contextName,
                          !.namespace = namespace, !.now = now, !.fault = fault,
                          !.result = g.result, !.err = g.err, !.pre = file,
                          !.gets = g.gets, !.sets = g.sets]
           /\ UNCHANGED <<client, procs, lastWriter>>

\* c.setWithErr(contextName, namespace, token)
DoSetWithErr ==
    \E key \in Keys, token \in TokenRequest, fault \in SetFaults(file) :
      \E w \in {setWithErr(file, key[1], key[2], token, fault)} :
        LET contextName == key[1]
            namespace == key[2]
        IN /\ file' = w.file
           /\ last' = [NoOp EXCEPT !.op = "setWithErr", !.contextName = contextName,
                          !.namespace = namespace, !.token = token, !.fault = fault,
                          !.err = w.err, !.pre = file,
                          !.gets = w.gets, !.sets = w.sets]
           /\ UNCHANGED <<client, procs, lastWriter>>

\* c.Set(contextName, namespace, token)
DoSet ==
    \E key \in Keys, token \in TokenRequest, fault \in SetFaults(file) :
      \E w \in {Set(file, key[1], key[2], token, fault)} :
        LET contextName == key[1]
            namespace == key[2]
        IN /\ file' = w.file
           /\ last' = [NoOp EXCEPT !.op = "Set", !.contextName = contextName,
                          !.namespace = namespace, !.token = token, !.fault = fault,
                          !.swallowed = w.swallowed, !.pre = file,
                          !.gets = w.gets, !.sets = w.sets]
           /\ UNCHANGED <<client, procs, lastWriter>>

\* client.GetKubeToken() against an endpoint that answers resp
DoGetKubeToken ==
    \E resp \in Responses, fault \in SetFaults(file) :
      \E k \in {GetKubeToken(file, client, resp, fault)} :
           /\ (fault # "none" => k.setCalls > 0)
           /\ file' = k.file
           /\ last' = [NoOp EXCEPT !.op = "GetKubeToken",
                          !.contextName = client.contextName,
                          !.namespace = client.namespace, !.fault = fault,
                          !.resp = resp, !.result = k.result, !.err = k.err,
                          !.swallowed = k.swallowed, !.setCalls = k.setCalls,
                          !.pre = file, !.gets = k.gets, !.sets = k.sets,
                          !.requests = k.requests]
           /\ UNCHANGED <<client, procs, lastWriter>>

Next == DoGet \/ DoSetWithErr \/ DoSet \/ DoGetKubeToken

Spec == Init /\ [][Next]_vars

\* c.setWithErr(contextName, namespace, token) whose os.WriteFile fails
\* after it has truncated the file
DoSetWithErrInterrupted ==
    \E key \in Keys, token \in TokenRequest, fault \in InterruptedFaults :
      \E w \in {setWithErr(file, key[1], key[2], token, fault)} :
        /\ file' = w.file
        /\ last' = [NoOp EXCEPT !.op = "setWithErr", !.contextName = key[1],
                       !.namespace = key[2], !.token = token, !.fault = fault,
                       !.err = w.err, !.pre = file,
                       !.gets = w.gets, !.sets = w.sets]
        /\ UNCHANGED <<client, procs, lastWriter>>

\* c.Set(contextName, namespace, token) whose os.WriteFile fails after it
\* has truncated the file
DoSetInterrupted ==
    \E key \in Keys, token \in TokenRequest, fault \in InterruptedFaults :
      \E w \in {Set(file, key[1], key[2], token, fault)} :
        /\ file' = w.file
        /\ last' = [NoOp EXCEPT !.op = "Set", !.contextName = key[1],
                       !.namespace = key[2], !.token = token, !.fault = fault,
                       !.swallowed = w.swallowed, !.pre = file,
                       !.gets = w.gets, !.sets = w.sets]
        /\ UNCHANGED <<client, procs, lastWriter>>

\* the operations of the cache, with writes that fail half way
NextInterrupted ==
    DoGet \/ DoSetWithErr \/ DoSet \/ DoSetWithErrInterrupted \/ DoSetInterrupted

SpecInterrupted == Init /\ [][NextInterrupted]_vars

\* the registers another program can have written to the file
ExternalRegisters ==
    {[context |-> key[1], namespace |-> key[2], token |-> MarshalTokenValue(tok)] :
        key \in Keys, tok \in TokenRequest}

\* no file, or a file holding any array of at most MaxRegisters registers,
\* several of them with the same key included
ExternalFiles ==
    {NoFile} \cup
    {[exists |-> TRUE, contents |-> [fmt |-> "array", value |-> regs]] :
        regs \in UNION {[1..n -> ExternalRegisters] : n \in 0..MaxRegisters}}

InitExternal ==
    /\ file \in ExternalFiles
    /\ client = NewKubeTokenClient
    /\ procs = [p \in Procs |-> IdleProc]
    /\ lastWriter = "none"
    /\ last = NoOp

\* c.Get(contextName, namespace) at clock reading now, no system call failing
DoGetExternal ==
    \E key \in Keys, now \in Times :
      \E g \in {Get(file, key[1], key[2], now, "none")} :
        /\ file' = g.file
        /\ last' = [NoOp EXCEPT !.op = "Get", !.contextName = key[1],
                       !.namespace = key[2], !.now = now,
                       !.result = g.result, !.err = g.err, !.pre = file,
                       !.gets = g.gets, !.sets = g.sets]
        /\ UNCHANGED <<client, procs, lastWriter>>

\* c.setWithErr(contextName, namespace, token), no system call failing
DoSetWithErrExternal ==
    \E key \in Keys, token \in TokenRequest :
      \E w \in {setWithErr(file, key[1], key[2], token, "none")} :
        /\ Len(w.file.contents.value) <= MaxRegisters
        /\ file' = w.file
        /\ last' = [NoOp EXCEPT !.op = "setWithErr", !.contextName = key[1],
                       !.namespace = key[2], !.token = token,
                       !.err = w.err, !.pre = file,
                       !.gets = w.gets, !.sets = w.sets]
        /\ UNCHANGED <<client, procs, lastWriter>>

\* c.Set(contextName, namespace, token), no system call failing
DoSetExternal ==
    \E key \in Keys, token \in TokenRequest :
      \E w \in {Set(file, key[1], key[2], token, "none")} :
        /\ Len(w.file.contents.value) <= MaxRegisters
        /\ file' = w.file
        /\ last' = [NoOp EXCEPT !.op = "Set", !.contextName = key[1],
                       !.namespace = key[2], !.token = token,
                       !.swallowed = w.swallowed, !.pre = file,
                       !.gets = w.gets, !.sets = w.sets]
        /\ UNCHANGED <<client, procs, lastWriter>>

NextExternal == DoGetExternal \/ DoSetWithErrExternal \/ DoSetExternal

\* the cache on a file that another program may have written
SpecExternal == InitExternal /\ [][NextExternal]_vars

\* the byte strings handed to FileByteStore.Set: none, bytes that are no
\* JSON, and the arrays of at most one register
StoreValues ==
    {EmptyBytes, Garbage} \cup
    {[fmt |-> "array", value |-> regs] :
        regs \in UNION {[1..n -> ExternalRegisters] : n \in 0..1}}

\* s.Get() on the FileByteStore
DoStoreGet ==
    \E fault \in GetFaults(file) :
      \E g \in {FileByteStoreGet(file, fault)} :
        /\ file' = g.file
        /\ last' = [NoOp EXCEPT !.op = "StoreGet", !.fault = fault,
                       !.result = g.data, !.err = g.err, !.pre = file,
                       !.gets = 1]
        /\ UNCHANGED <<client, procs, lastWriter>>

\* s.Set(value) on the FileByteStore
DoStoreSet ==
    \E value \in StoreValues, fault \in {"none", "write"} :
      \E w \in {FileByteStoreSet(file, value, fault)} :
        /\ file' = w.file
        /\ last' = [NoOp EXCEPT !.op = "StoreSet", !.fault = fault,
                       !.value = value, !.err = w.err, !.pre = file,
                       !.sets = 1]
        /\ UNCHANGED <<client, procs, lastWriter>>

NextStore == DoStoreGet \/ DoStoreSet

\* the FileByteStore alone, under any caller
SpecStore == Init /\ [][NextStore]_vars

\* the tokens the racing processes store
RaceTokens == {tok \in TokenRequest : tok.expirationTimestamp = MaxTime}

\* the files the race starts on: none, the empty array, one register
RaceFiles ==
    {NoFile, [exists |-> TRUE, contents |-> EmptyArray]} \cup
    {[exists |-> TRUE,
      contents |-> MarshalIndentStore(Upsert(<<>>, key[1], key[2], tok))] :
        key \in Keys, tok \in RaceTokens}

InitRace ==
    /\ file \in RaceFiles
    /\ client = NewKubeTokenClient
    /\ last = NoOp
    /\ procs = [p \in Procs |-> IdleProc]
    /\ lastWriter = "none"

\* what the file holds after data is written at offset 0 over contents cur:
\* the keys, the payloads and the timestamps all have one width, so an
\* array is as long as it has registers, and bytes of cur beyond the end of
\* data stay in the file
Overlay(cur, data) ==
    IF cur = EmptyBytes THEN data
    ELSE IF data = EmptyBytes THEN cur
    ELSE IF /\ cur.fmt = "array" /\ data.fmt = "array"
            /\ Len(cur.value) <= Len(data.value)
    THEN data
    ELSE Garbage

\* process p calls c.setWithErr(contextName, namespace, token)
RaceCall(p) ==
    /\ procs[p].pc = "idle"
    /\ \E key \in Keys, token \in RaceTokens :
          procs' = [procs EXCEPT ![p] = [IdleProc EXCEPT !.pc = "stat",
                                            !.op = "setWithErr",
                                            !.contextName = key[1],
                                            !.namespace = key[2],
                                            !.token = token]]
    /\ UNCHANGED <<file, client, last, lastWriter>>

\* process p calls c.Get(contextName, namespace) at clock reading now
RaceCallGet(p) ==
    /\ procs[p].pc = "idle"
    /\ \E key \in Keys, now \in Times :
          procs' = [procs EXCEPT ![p] = [IdleProc EXCEPT !.pc = "stat",
                                            !.op = "Get",
                                            !.contextName = key[1],
                                            !.namespace = key[2],
                                            !.now = now]]
    /\ UNCHANGED <<file, client, last, lastWriter>>

\* os.Stat in FileByteStore.Get
RaceStat(p) ==
    /\ procs[p].pc = "stat"
    /\ procs' = [procs EXCEPT ![p].pc = IF file.exists THEN "read" ELSE "create"]
    /\ UNCHANGED <<file, client, last, lastWriter>>

\* os.WriteFile(FileName, "[]") in FileByteStore.Get opens the file with
\* O_CREATE and O_TRUNC
RaceCreate(p) ==
    /\ procs[p].pc = "create"
    /\ file' = [exists |-> TRUE, contents |-> EmptyBytes]
    /\ procs' = [procs EXCEPT ![p].pc = "init"]
    /\ UNCHANGED <<client, last, lastWriter>>

\* os.WriteFile(FileName, "[]") in FileByteStore.Get writes its two bytes
RaceInit(p) ==
    /\ procs[p].pc = "init"
    /\ file' = [exists |-> TRUE, contents |-> Overlay(file.contents, EmptyArray)]
    /\ procs' = [procs EXCEPT ![p].pc = "read"]
    /\ UNCHANGED <<client, last, lastWriter>>

\* os.ReadFile, json.Unmarshal and the loop of Get: on the bytes it has
\* read, the Get of process p does what Get does on a file holding them
RaceReadGet(p) ==
    /\ procs[p].pc = "read" /\ procs[p].op = "Get"
    /\ \E g \in {Get(file, procs[p].contextName, procs[p].namespace,
                      procs[p].now, "none")} :
          procs' = [procs EXCEPT ![p] = [@ EXCEPT !.pc = "done",
                                                  !.result = g.result,
                                                  !.err = g.err]]
    /\ UNCHANGED <<file, client, last, lastWriter>>

\* os.ReadFile, json.Unmarshal, the loop of setWithErr and json.MarshalIndent
RaceRead(p) ==
    /\ procs[p].pc = "read" /\ procs[p].op = "setWithErr"
    /\ procs' = [procs EXCEPT ![p] =
          IF UnmarshalStoreOk(file.contents)
          THEN [@ EXCEPT !.pc = "open",
                         !.buf = MarshalIndentStore(
                                     Upsert(UnmarshalStore(file.contents),
                                            procs[p].contextName,
                                            procs[p].namespace,
                                            procs[p].token))]
          ELSE [@ EXCEPT !.pc = "done", !.err = CacheDecodeError]]
    /\ UNCHANGED <<file, client, last, lastWriter>>

\* os.WriteFile in FileByteStore.Set opens the file with O_TRUNC
RaceOpen(p) ==
    /\ procs[p].pc = "open"
    /\ file' = [exists |-> TRUE, contents |-> EmptyBytes]
    /\ procs' = [procs EXCEPT ![p].pc = "write"]
    /\ UNCHANGED <<client, last, lastWriter>>

\* os.WriteFile in FileByteStore.Set writes the bytes at offset 0
RaceWrite(p) ==
    /\ procs[p].pc = "write"
    /\ file' = [exists |-> TRUE, contents |-> Overlay(file.contents, procs[p].buf)]
    /\ procs' = [procs EXCEPT ![p].pc = "done"]
    /\ lastWriter' = p
    /\ UNCHANGED <<client, last>>

NextRace ==
    \E p \in Procs :
        \/ RaceCall(p) \/ RaceCallGet(p)
        \/ RaceStat(p) \/ RaceCreate(p) \/ RaceInit(p)
        \/ RaceReadGet(p) \/ RaceRead(p) \/ RaceOpen(p) \/ RaceWrite(p)

\* two processes, each running Get or setWithErr once on the same file
SpecRace == InitRace /\ [][NextRace]_vars

----------------------------------------------------------------------------
(* Shape of the state *)

TypeOK ==
    /\ file.exists \in BOOLEAN
    /\ file.contents.fmt \in {"empty", "garbage", "array"}
    /\ last.op \in {"none", "Get", "setWithErr", "Set", "GetKubeToken",
                   "StoreGet", "StoreSet"}

----------------------------------------------------------------------------
(* Vocabulary of the properties *)

\* the registers persisted in file f (none when it holds no array)
Entries(f) == IF f.contents.fmt = "array" THEN f.contents.value ELSE <<>>

EntryKey(e) == <<e.context, e.namespace>>

\* positions of the persisted registers with the key
IndexesOf(f, key) == {i \in 1..Len(Entries(f)) : EntryKey(Entries(f)[i]) = key}

\* expiration, in ticks, of a persisted register
EntryExpiration(e) == UnmarshalTime(e.token.expirationTimestamp)

\* key of the operation recorded in l
OpKey(l) == <<l.contextName, l.namespace>>

\* l records a write to the cache that persisted its register
SuccessfulWrite(l) ==
    \/ l.op = "setWithErr" /\ l.err = NoErr
    \/ l.op = "Set" /\ l.swallowed = NoErr
    \/ l.op = "GetKubeToken" /\ l.setCalls = 1 /\ l.swallowed = NoErr

\* at most one persisted register per key
UniqueKeys(f) ==
    \A i, j \in 1..Len(Entries(f)) :
        EntryKey(Entries(f)[i]) = EntryKey(Entries(f)[j]) => i = j

----------------------------------------------------------------------------
(* C1 *)

\* C1: from an absent or empty file, after any sequence of Get, Set,
\* setWithErr and GetKubeToken, with any keys, tokens and clock readings,
\* the persisted sequence holds at most one register per (contextName,
\* namespace).
C1_AtMostOneEntryPerKey == UniqueKeys(file)

\* a write to a key the file already held, with every key persisted
C1_Witness ==
    /\ SuccessfulWrite(last)
    /\ IndexesOf(last.pre, OpKey(last)) # {}
    /\ Len(Entries(file)) = Cardinality(Keys)

----------------------------------------------------------------------------
(* C2 *)

\* C2: round trip.  For every key and every token whose expiration is
\* strictly after the current instant, a successful Set(ctx, ns, token)
\* immediately followed by Get(ctx, ns) returns, with no error, a non-empty
\* result that is logically equal to the stored token.
C2_RoundTrip ==
    [][(/\ last.op = "Set" /\ last.swallowed = NoErr
        /\ last'.op = "Get" /\ OpKey(last') = OpKey(last)
        /\ last'.fault = "none"
        /\ After(last.token.expirationTimestamp, last'.now))
       => (/\ last'.err = NoErr
           /\ last'.result.fmt = "object"
           /\ UnmarshalToken(last'.result) = last.token)]_vars

----------------------------------------------------------------------------
(* C3 *)

\* C3: upsert.  Set(ctx, ns, tokenA) followed by Set(ctx, ns, tokenB) leaves
\* exactly one register for (ctx, ns), holding tokenB as json.MarshalIndent
\* writes it; writing the same (ctx, ns, token) a second time leaves the
\* file as the first write left it.
C3_Upsert ==
    [][(/\ last.op \in {"Set", "setWithErr"} /\ SuccessfulWrite(last)
        /\ last'.op \in {"Set", "setWithErr"} /\ SuccessfulWrite(last')
        /\ OpKey(last') = OpKey(last))
       => (/\ Cardinality(IndexesOf(file', OpKey(last'))) = 1
           /\ \A i \in IndexesOf(file', OpKey(last')) :
                 Entries(file')[i].token = MarshalTokenValue(last'.token)
           /\ (last'.token = last.token => file' = file))]_vars

\* a second write to a key has replaced a token that differs from its own,
\* next to a register of another key
C3_Witness ==
    /\ last.op = "Set" /\ SuccessfulWrite(last)
    /\ \E i \in IndexesOf(last.pre, OpKey(last)) :
          /\ Entries(last.pre)[i].token # MarshalTokenValue(last.token)
          /\ Entries(file)[i].token = MarshalTokenValue(last.token)
    /\ Len(Entries(file)) > 1

----------------------------------------------------------------------------
(* C4 *)

\* C4: expiration boundary.  Get(ctx, ns) on a store whose matching register
\* has expiration E returns the token, re-encoded, iff E is strictly after
\* the current instant; when E equals the current instant or is before it,
\* Get returns the empty result with no error.
C4_ExpirationBoundary ==
    (/\ last.op = "Get" /\ last.fault = "none"
     /\ IndexesOf(last.pre, OpKey(last)) # {})
    => LET e == Entries(last.pre)[Min(IndexesOf(last.pre, OpKey(last)))]
       IN /\ last.err = NoErr
          /\ (EntryExpiration(e) > last.now
                => last.result = [fmt |-> "object", indent |-> TRUE,
                                  value |-> e.token])
          /\ (EntryExpiration(e) <= last.now => last.result = EmptyBytes)

\* a Get at the very instant its register expires, which misses
C4_Witness ==
    /\ last.op = "Get" /\ last.fault = "none" /\ last.now > 0
    /\ \E i \in IndexesOf(last.pre, OpKey(last)) :
          EntryExpiration(Entries(last.pre)[i]) = last.now
    /\ last.result = EmptyBytes /\ last.err = NoErr

----------------------------------------------------------------------------
(* C5 *)

----------------------------------------------------------------------------
(* C6 *)

----------------------------------------------------------------------------
(* C7 *)

\* C7: bootstrap.  Get(ctx, ns) on a cache whose file does not exist, the
\* system calls succeeding, creates the file holding exactly the empty
\* sequence and returns the empty result with no error.
C7_Bootstrap ==
    (last.op = "Get" /\ ~last.pre.exists /\ last.fault = "none")
    => /\ file = [exists |-> TRUE, contents |-> EmptyArray]
       /\ last.result = EmptyBytes
       /\ last.err = NoErr

\* a Get has found no file and left the empty array
C7_Witness ==
    /\ last.op = "Get" /\ ~last.pre.exists /\ last.fault = "none"
    /\ file.exists /\ file.contents = EmptyArray

----------------------------------------------------------------------------
(* C8 *)

\* the file holds bytes that are no encoding of a sequence of registers, and
\* the operation recorded in l met no failing system call
OnCorruptFile(l) ==
    l.pre.exists /\ ~UnmarshalStoreOk(l.pre.contents) /\ l.fault = "none"

\* C8 as stated: on a file holding bytes that are no valid encoding of a
\* sequence of registers, Get fails with a DecodeError and Set fails with a
\* DecodeError, and both leave the file untouched.
C8_Corruption ==
    (last.op \in {"Get", "Set"} /\ OnCorruptFile(last))
    => (last.err.kind = "DecodeError" /\ file = last.pre)

\* C8 amended: on such a file Get and setWithErr fail with a DecodeError;
\* Set, which returns nothing, reports no failure and drops the DecodeError
\* of setWithErr; all three leave the file untouched.
C8_CorruptionAmended ==
    OnCorruptFile(last)
    => /\ last.op \in {"Get", "setWithErr"}
            => (last.err = CacheDecodeError /\ file = last.pre)
       /\ last.op = "Set"
            => (/\ last.err = NoErr
                /\ last.swallowed = CacheDecodeError
                /\ file = last.pre)

\* setWithErr has failed to decode the file
C8_Witness ==
    /\ last.op = "setWithErr" /\ OnCorruptFile(last)
    /\ last.err.kind = "DecodeError"
    /\ file.contents = Garbage

----------------------------------------------------------------------------
(* C9 *)

\* the endpoint answered 200 with a body that decodes as a token
Fetched(l) ==
    /\ l.op = "GetKubeToken"
    /\ l.resp.transport /\ l.resp.status = StatusOK /\ l.resp.readable
    /\ UnmarshalTokenOk(l.resp.body)

\* C9: when the endpoint answers 200 with a body that decodes as a token and
\* the file is decodable and writable, GetKubeToken returns the raw body with
\* no error, and on return the file holds a register for the client's
\* (contextName, namespace) whose token is the decoded body as
\* json.MarshalIndent writes it: the cache is written before the return.
C9_FetchFillsCache ==
    (/\ Fetched(last) /\ last.fault = "none"
     /\ (last.pre.exists => UnmarshalStoreOk(last.pre.contents)))
    => /\ last.result = last.resp.body
       /\ last.err = NoErr
       /\ last.setCalls = 1
       /\ Cardinality(IndexesOf(file, <<client.contextName, client.namespace>>)) = 1
       /\ \A i \in IndexesOf(file, <<client.contextName, client.namespace>>) :
             Entries(file)[i].token
                = MarshalTokenValue(UnmarshalToken(last.resp.body))

\* a compact body has been returned as it came and its token appended after
\* the register of another key
C9_Witness ==
    /\ Fetched(last) /\ last.fault = "none"
    /\ last.result = last.resp.body /\ ~last.result.indent
    /\ Len(Entries(last.pre)) = 1
    /\ IndexesOf(file, <<client.contextName, client.namespace>>) = {2}

----------------------------------------------------------------------------
(* C10 *)

\* C10: when the endpoint answers 401, GetKubeToken fails with an
\* AuthenticationError naming the client's context, returns no token and
\* does not touch the cache: no write is attempted.
C10_Unauthorized ==
    (/\ last.op = "GetKubeToken"
     /\ last.resp.transport /\ last.resp.status = StatusUnauthorized)
    => /\ last.err = [kind |-> "AuthenticationError",
                      detail |-> client.contextName]
       /\ last.result = EmptyBytes
       /\ last.setCalls = 0
       /\ file = last.pre

\* a 401 on a cache that holds a register
C10_Witness ==
    /\ last.op = "GetKubeToken"
    /\ last.resp.transport /\ last.resp.status = StatusUnauthorized
    /\ last.err.kind = "AuthenticationError"
    /\ Len(Entries(file)) > 0

----------------------------------------------------------------------------
(* C11 *)

\* C11: a successful fetch is never reported as failed because of the
\* cache.  When the endpoint answers 200 with a decodable body,
\* GetKubeToken returns the body with no error whatever the file holds and
\* whichever system call fails; when the cache write fails, the file is
\* left without the new register.
C11_FetchNeverFailsOnCache ==
    Fetched(last)
    => /\ last.result = last.resp.body
       /\ last.err = NoErr
       /\ last.swallowed # NoErr
            => /\ Len(Entries(file)) <= Len(Entries(last.pre))
               /\ \A i \in 1..Len(Entries(file)) :
                     Entries(file)[i] = Entries(last.pre)[i]

\* a fetch has returned its body although the file could not be decoded
C11_Witness ==
    /\ Fetched(last)
    /\ last.swallowed = CacheDecodeError
    /\ last.err = NoErr /\ last.result = last.resp.body
    /\ file.contents = Garbage

----------------------------------------------------------------------------
(* C12 *)

\* C12: GetKubeToken puts every outcome in exactly one class: transport
\* failure (NetworkError), status 401 (AuthenticationError), another status
\* than 200 (UnexpectedStatusError with the status text), 200 with an
\* unreadable body (ReadError), 200 with a malformed body (DecodeError),
\* 200 with a decodable body (success).  The cache is written only in the
\* last class; in every failure the token returned is empty and the file is
\* unchanged.
C12_Classification ==
    last.op = "GetKubeToken"
    => LET r == last.resp
           kind == last.err.kind
       IN /\ ~r.transport => kind = "NetworkError"
          /\ (r.transport /\ r.status = 401) => kind = "AuthenticationError"
          /\ (r.transport /\ r.status = 500)
               => last.err = [kind |-> "UnexpectedStatusError",
                              detail |-> "500 Internal Server Error"]
          /\ (r.transport /\ r.status = 200 /\ ~r.readable) => kind = "ReadError"
          /\ (r.transport /\ r.status = 200 /\ r.readable /\ r.body.fmt # "object")
               => kind = "DecodeError"
          /\ (r.transport /\ r.status = 200 /\ r.readable /\ r.body.fmt = "object")
               => kind = "nil"
          /\ kind # "nil"
               => (/\ last.result = EmptyBytes
                   /\ file = last.pre
                   /\ last.setCalls = 0 /\ last.sets = 0)
          /\ kind = "nil" => last.setCalls = 1

\* a status that is neither 200 nor 401, on a cache that holds a register
C12_Witness ==
    /\ last.op = "GetKubeToken"
    /\ last.err.kind = "UnexpectedStatusError"
    /\ last.result = EmptyBytes
    /\ Len(Entries(file)) > 0

----------------------------------------------------------------------------
(* C14 *)

\* C14: each operation performs at most one read-modify-write of the file.
\* Get makes one read and persists nothing; Set and setWithErr make one
\* read followed by at most one persist; GetKubeToken makes exactly one
\* HTTP request, with no retry on any failure, followed by at most one read
\* and one persist of the cache.
C14_OneReadModifyWrite ==
    /\ last.op = "Get"
         => (last.gets = 1 /\ last.sets = 0 /\ last.requests = 0)
    /\ last.op \in {"Set", "setWithErr"}
         => (/\ last.gets = 1 /\ last.sets <= 1 /\ last.requests = 0
             /\ last.sets = 1 => last.fault \in {"none", "write"})
    /\ last.op = "GetKubeToken"
         => (/\ last.requests = 1
             /\ last.gets <= 1 /\ last.sets <= last.gets
             /\ last.gets = 1 <=> Fetched(last))

\* a fetch has made its one request and its one read and persist
C14_Witness ==
    /\ last.op = "GetKubeToken"
    /\ last.requests = 1 /\ last.gets = 1 /\ last.sets = 1
    /\ file # last.pre

----------------------------------------------------------------------------
(* C15 *)

\* the cache of the operation recorded in l was read and decoded
CacheRead(l) ==
    /\ l.fault = "none"
    /\ l.pre.exists => UnmarshalStoreOk(l.pre.contents)

\* l records a Get for a key that was never cached
NeverCached(l) ==
    l.op = "Get" /\ CacheRead(l) /\ IndexesOf(l.pre, OpKey(l)) = {}

\* l records a Get for a key whose register is expired
CachedExpired(l) ==
    /\ l.op = "Get" /\ CacheRead(l)
    /\ IndexesOf(l.pre, OpKey(l)) # {}
    /\ EntryExpiration(Entries(l.pre)[Min(IndexesOf(l.pre, OpKey(l)))]) <= l.now

\* C15 as stated: Get and GetKubeToken both return the empty string with no
\* error when no usable token was obtained; for Get both when the key was
\* never cached and when its register is expired.
C15_EmptyMeansNoToken ==
    /\ (NeverCached(last) \/ CachedExpired(last))
         => (last.result = EmptyBytes /\ last.err = NoErr)
    /\ (last.op = "GetKubeToken" /\ last.result = EmptyBytes)
         => last.err = NoErr

\* C15 amended: Get returns the empty string with no error both when the
\* key was never cached and when its register is expired, so the two cases
\* give identical results; GetKubeToken never returns the empty string with
\* no error: it returns the empty string exactly when it returns an error.
C15_EmptyMeansNoTokenAmended ==
    /\ (NeverCached(last) \/ CachedExpired(last))
         => (last.result = EmptyBytes /\ last.err = NoErr)
    /\ last.op = "GetKubeToken"
         => (last.result = EmptyBytes <=> last.err # NoErr)

\* a Get has missed on an expired register
C15_Witness ==
    /\ CachedExpired(last)
    /\ last.result = EmptyBytes /\ last.err = NoErr

----------------------------------------------------------------------------
(* C16 *)

\* the read of the operation recorded in l failed
ReadFailed(l) ==
    \/ l.fault \in {"stat", "create", "read"}
    \/ l.pre.exists /\ ~UnmarshalStoreOk(l.pre.contents)

\* the persist of the operation recorded in l was reached and failed
PersistFailed(l) ==
    ~ReadFailed(l) /\ l.fault \in {"write"} \cup InterruptedFaults

\* file g holds what file f held: the same bytes, or the empty array that
\* FileByteStore.Get writes where there was no file
SameContent(f, g) ==
    IF f.exists THEN g = f
    ELSE g \in {NoFile, [exists |-> TRUE, contents |-> EmptyArray]}

\* C16: setWithErr returns an error exactly when the read of the file fails
\* (storage or decoding) or the persist fails, and when it returns an error
\* the file holds what it held before the call (no partial update); Set
\* makes the same change to the file as setWithErr and reports nothing.
C16_ErrorLeavesContent ==
    /\ last.op = "setWithErr"
         => /\ last.err # NoErr <=> (ReadFailed(last) \/ PersistFailed(last))
            /\ last.err # NoErr => SameContent(last.pre, file)
    /\ last.op = "Set"
         => /\ last.err = NoErr
            /\ file = setWithErr(last.pre, last.contextName, last.namespace,
                                 last.token, last.fault).file

----------------------------------------------------------------------------
(* C17 *)

\* C17: Get scans the registers in order and decides on the first one whose
\* key is (contextName, namespace).  When the file holds several registers
\* with that key the result depends on the first only: the token of the
\* first when it is unexpired, the empty result when it is expired, even if
\* a later register with the key is unexpired.
C17_FirstMatchDecides ==
    last.op = "Get"
    => \A i \in IndexesOf(last.pre, OpKey(last)) :
          (\A j \in IndexesOf(last.pre, OpKey(last)) : i <= j)
          => /\ last.err = NoErr
             /\ IF EntryExpiration(Entries(last.pre)[i]) > last.now
                THEN last.result =
                       [fmt |-> "object", indent |-> TRUE,
                        value |-> Entries(last.pre)[i].token]
                ELSE last.result = EmptyBytes

\* a Get has missed on an expired register that an unexpired register of
\* the same key follows
C17_Witness ==
    /\ last.op = "Get" /\ last.result = EmptyBytes
    /\ \E i, j \in IndexesOf(last.pre, OpKey(last)) :
          /\ i < j
          /\ \A k \in IndexesOf(last.pre, OpKey(last)) : i <= k
          /\ EntryExpiration(Entries(last.pre)[i]) <= last.now
          /\ EntryExpiration(Entries(last.pre)[j]) > last.now

----------------------------------------------------------------------------
(* C18 *)

\* C18: a successful setWithErr(ctx, ns, token) changes the persisted
\* sequence in exactly one of two ways.  If a register with the key exists,
\* the sequence keeps its length and the order of its keys, the matching
\* register holds the new token at the same position and every register
\* with another key is unchanged; if none exists, the new sequence is the
\* old one with the register (ctx, ns, token) appended at the end.
C18_ReplaceOrAppend ==
    (last.op = "setWithErr" /\ last.err = NoErr)
    => LET old == Entries(last.pre)
           new == Entries(file)
           key == OpKey(last)
           tok == MarshalTokenValue(last.token)
       IN IF IndexesOf(last.pre, key) # {}
          THEN /\ Len(new) = Len(old)
               /\ \A i \in 1..Len(old) :
                     /\ EntryKey(new[i]) = EntryKey(old[i])
                     /\ EntryKey(old[i]) = key => new[i].token = tok
                     /\ EntryKey(old[i]) # key => new[i] = old[i]
          ELSE new = Append(old, [context |-> key[1], namespace |-> key[2],
                                  token |-> tok])

\* a register between two registers of other keys has got a new token
C18_Witness ==
    /\ last.op = "setWithErr" /\ last.err = NoErr
    /\ IndexesOf(last.pre, OpKey(last)) = {2}
    /\ Len(Entries(last.pre)) = 3
    /\ Entries(file)[2] # Entries(last.pre)[2]
    /\ Entries(file)[2].token = MarshalTokenValue(last.token)

----------------------------------------------------------------------------
(* C19 *)

\* C19: after any successful write, whatever decodable content the file
\* held before it (content written by another program, with several
\* registers of the same key, included), the persisted sequence holds at
\* most one register per key.
C19_UniqueAfterWrite ==
    SuccessfulWrite(last) => UniqueKeys(file)

----------------------------------------------------------------------------
(* C20 *)

\* what one call of the FileByteStore has done, as recorded in l, to file f
StoreContract(l, f) ==
    /\ (l.op = "StoreGet" /\ l.pre.exists)
         => (f = l.pre /\ (l.err = NoErr => l.result = l.pre.contents))
    /\ (l.op = "StoreGet" /\ ~l.pre.exists /\ l.err = NoErr)
         => (/\ f = [exists |-> TRUE, contents |-> EmptyArray]
             /\ l.result = EmptyArray)
    /\ (l.op = "StoreSet" /\ l.err = NoErr)
         => f = [exists |-> TRUE, contents |-> l.value]

\* C20: the contract of the byte store.  Get on an existing file returns
\* its contents verbatim and does not modify it; Get where there is no file
\* first writes the empty array and then returns it; Set replaces the whole
\* contents by the bytes given, so a Get that follows a successful Set with
\* nothing in between returns exactly the bytes that were set.
C20_ByteStoreContract ==
    /\ []StoreContract(last, file)
    /\ [][(/\ last.op = "StoreSet" /\ last.err = NoErr
           /\ last'.op = "StoreGet" /\ last'.err = NoErr)
          => last'.result = last.value]_vars

\* a Get has returned a register that only a Set can have put in the file
\* that held other bytes before
C20_Witness ==
    /\ last.op = "StoreGet" /\ last.err = NoErr
    /\ last.result.fmt = "array" /\ Len(last.result.value) = 1
    /\ file.contents = last.result

----------------------------------------------------------------------------
(* C13 *)

\* both processes have returned from their operation
RaceOver == \A p \in Procs : procs[p].pc = "done"

\* C13: two processes running setWithErr on the same file leave, in every
\* interleaving, exactly the sequence persisted by the last writer: the
\* file always holds a decodable sequence (no corruption), the earlier
\* writer's register possibly missing from it (last writer wins).
C13_LastWriterWins ==
    (RaceOver /\ \A p \in Procs : procs[p].op = "setWithErr")
    => /\ lastWriter # "none"
       /\ UnmarshalStoreOk(file.contents)
       /\ file.contents = procs[lastWriter].buf

----------------------------------------------------------------------------
(* C21 *)

\* C21: no state is held in memory across operations.  Every Get and every
\* write loads the whole sequence from the file again, so a Get that
\* follows a completed Set, whichever process made it, observes the token
\* that Set persisted for the key (a hit while it is unexpired), and a
\* write to another key that follows it keeps that Set's register.
C21_NothingInMemory ==
    [][(last.op \in {"Set", "setWithErr"} /\ SuccessfulWrite(last))
       => LET key == OpKey(last)
              tok == MarshalTokenValue(last.token)
          IN /\ (/\ last'.op = "Get" /\ last'.fault = "none"
                 /\ OpKey(last') = key)
                => (/\ last'.err = NoErr
                    /\ last'.result =
                         IF UnmarshalTime(tok.expirationTimestamp) > last'.now
                         THEN [fmt |-> "object", indent |-> TRUE, value |-> tok]
                         ELSE EmptyBytes)
             /\ (SuccessfulWrite(last') /\ OpKey(last') # key)
                => \E i \in IndexesOf(file', key) :
                      /\ i \in IndexesOf(file, key)
                      /\ Entries(file')[i].token = tok]_vars

\* a Get has returned the token of the second register of a file that
\* writes have filled
C21_Witness ==
    /\ last.op = "Get" /\ last.err = NoErr
    /\ last.result.fmt = "object"
    /\ \E i \in IndexesOf(file, OpKey(last)) :
          i > 1 /\ last.result.value = Entries(file)[i].token

----------------------------------------------------------------------------
(* C23 *)

\* C23: Get is read-only on an existing file.  Whatever the file holds and
\* whatever the outcome (hit, miss, expired, decode error, storage error),
\* the file after Get is the file before it, and Get never calls the
\* store's Set.
C23_GetIsReadOnly ==
    (last.op = "Get" /\ last.pre.exists)
    => (file = last.pre /\ last.sets = 0)

\* a Get has failed to read a file that holds registers
C23_Witness ==
    /\ last.op = "Get" /\ last.pre.exists
    /\ last.err = StorageError("error reading file")
    /\ Len(Entries(file)) > 1

----------------------------------------------------------------------------
(* C22 *)

\* C22: under sequential operation no register is ever removed.  Across any
\* sequence of Get, Set and GetKubeToken the keys present in the persisted
\* sequence never shrink and the registers keep their relative order; the
\* token of a register changes only by a successful write to its own key.
C22_NoEntryRemoved ==
    [][\A i \in 1..Len(Entries(file)) :
          /\ i <= Len(Entries(file'))
          /\ EntryKey(Entries(file')[i]) = EntryKey(Entries(file)[i])
          /\ Entries(file')[i] # Entries(file)[i]
               => (/\ SuccessfulWrite(last')
                   /\ OpKey(last') = EntryKey(Entries(file)[i]))]_vars

----------------------------------------------------------------------------
(* C24 *)

\* C24: from an absent or empty file, at most one register per key holds in
\* every reachable state under every interleaving of processes that write
\* and read the same file, each by a read followed by an overwrite that is
\* not atomic with it, two writers of one key included: it holds of the
\* sequence the file holds whenever the file holds one, and of the sequence
\* every process is about to persist.
C24_UniqueUnderRace ==
    /\ UniqueKeys(file)
    /\ \A p \in Procs : UniqueKeys([exists |-> TRUE, contents |-> procs[p].buf])

\* two processes have written the same key next to the register of another
\* key, and the file holds one register for each
C24_Witness ==
    /\ RaceOver
    /\ \A p \in Procs : procs[p].op = "setWithErr" /\ procs[p].err = NoErr
    /\ \A p, q \in Procs :
          /\ procs[p].contextName = procs[q].contextName
          /\ procs[p].namespace = procs[q].namespace
    /\ Len(Entries(file)) = 2
    /\ \E p \in Procs :
          Cardinality(IndexesOf(file, <<procs[p].contextName,
                                        procs[p].namespace>>)) = 1

----------------------------------------------------------------------------
(* C25 *)

\* process p is in FileByteStore.Get, the read phase of its operation
InReadPhase(p) == procs[p].pc \in {"stat", "create", "init", "read"}

\* C25: a Get, or the read phase of any operation, never removes a register
\* that another process persisted, also when the two interleave: the
\* existence check of FileByteStore.Get followed by its write of the empty
\* array cannot overwrite what a concurrent writer persisted in between.
C25_ReadPhaseKeepsEntries ==
    [][\A p \in Procs :
          (InReadPhase(p) /\ procs'[p] # procs[p])
          => \A i \in 1..Len(Entries(file)) :
                /\ i <= Len(Entries(file'))
                /\ Entries(file')[i] = Entries(file)[i]]_vars

====
